---- MODULE Spec2Model ----
(***************************************************************************)
(* Model of the delivery service of py-event-micro (src/delivery/main.py,  *)
(* src/delivery/subscriber.py): the Redis event store, the per-delivery     *)
(* state cache ("delivery:{pk}" keys), the reducers of subscriber.py and    *)
(* the three HTTP handlers create, dispatch and get_delivery_status; and of  *)
(* the services around it: the rate limiter and the event publisher of the  *)
(* users service (src/users/common), the inventory consumer                 *)
(* (src/inventory/subscriber.py) and the payment service                    *)
(* (src/payment/main.py).                                                   *)
(*                                                                         *)
(* Python values are modelled as follows.  A dict is a function whose       *)
(* domain is its set of keys; None is the one-key function None; a raised   *)
(* exception is the one-key function Raise(name); a JSON string produced by *)
(* json.dumps is the wrapper [json |-> value].                              *)
(***************************************************************************)
EXTENDS Integers, Sequences, FiniteSets, TLC

VARIABLES
    hasCreatedAt,   \* build: does the installed redis_om Event carry created_at
    deliveries,     \* saved Delivery hashes, in save order (pk = index)
    events,         \* saved Event hashes, in save order
    cache,          \* the Redis string keys "delivery:{pk}"
    last,           \* the last HTTP request served and its response
    rState,         \* reducer harness: prior state handed to a reducer
    rEvent,         \* reducer harness: event handed to a reducer
    rResult,        \* reducer harness: what the reducer returned or raised
    rLen,           \* reducer harness: reducers applied so far in this chain
    clients,        \* concurrent requests in flight: position and locals of each
    clock,          \* users service: the value time.time() returns
    zsets,          \* users service: the sorted set of each rate-limit key
    expires,        \* users service: when each rate-limit key expires
    audit,          \* users service: the requests the middleware has answered
    products,       \* inventory service: the saved Product hashes
    order_completed,\* the Redis stream "order_completed", in XADD order
    delivered,      \* how far inventory_group has read the stream
    refund_order,   \* the Redis stream "refund_order"
    orders,         \* payment service: the saved Order hashes (pk = index)
    tasks,          \* payment service: position of each order's background task
    channel,        \* users service: the messages published on the channel
    published       \* users service: the last publish call and its outcome

vars ==
    <<hasCreatedAt, deliveries, events, cache, last,
      rState, rEvent, rResult, rLen, clients,
      clock, zsets, expires, audit,
      products, order_completed, delivered, refund_order,
      orders, tasks, channel, published>>

redVars == <<rState, rEvent, rResult, rLen>>

\* the delivery service
deliveryVars == <<hasCreatedAt, deliveries, events, cache, last, redVars, clients>>

\* the rate limiter of the users service
limiterVars == <<clock, zsets, expires, audit>>

\* the inventory consumer and the streams it reads and writes
inventoryVars == <<products, order_completed, delivered, refund_order>>

\* the payment service (it writes the stream order_completed as well)
paymentVars == <<orders, tasks>>

\* the event publisher of the users service
publisherVars == <<channel, published>>

\* the services beside the delivery service
svcVars == <<limiterVars, inventoryVars, paymentVars, publisherVars>>

\* the rate limiter before its first request
LimiterIdle ==
    /\ clock = 0
    /\ zsets = <<>>
    /\ expires = <<>>
    /\ audit = <<>>

\* the inventory service without products and messages
InventoryIdle ==
    /\ products = <<>>
    /\ order_completed = <<>>
    /\ delivered = 0
    /\ refund_order = <<>>

\* the payment service without orders
PaymentIdle ==
    /\ orders = <<>>
    /\ tasks = <<>>

\* the publisher before its first call
PublisherIdle ==
    /\ channel = <<>>
    /\ published = <<>>

\* the other services before their first request
ServicesIdle ==
    /\ LimiterIdle
    /\ InventoryIdle
    /\ PaymentIdle
    /\ PublisherIdle

-----------------------------------------------------------------------------
(* Bounds *)

MaxEvents == 2

MaxAmount == 1

-----------------------------------------------------------------------------
(* Python values *)

None == "none" :> TRUE

Raise(name) == "error" :> name

IsErr(v) == "error" \in DOMAIN v

EmptyDict == [k \in {} |-> 0]

\* Python's d1 | d2: the keys of both, d2 winning
Merge(d1, d2) == d2 @@ d1

json_dumps(v) == "json" :> v

json_loads(s) == IF s = None THEN Raise("TypeError") ELSE s["json"]

HTTP400 == Raise("HTTPException400")

-----------------------------------------------------------------------------
(* subscriber.py: the reducers.  Each takes the prior state (a dict or     *)
(* None) and an event, and returns the next state or raises.               *)

create_delivery(state, event) ==
    LET data == json_loads(event.data) IN
    IF "budget" \notin DOMAIN data \/ "notes" \notin DOMAIN data
    THEN Raise("KeyError")
    ELSE ("id" :> event.delivery_id) @@ ("budget" :> data["budget"])
         @@ ("notes" :> data["notes"]) @@ ("status" :> "ready")

start_delivery(state, event) ==
    IF state = None THEN Raise("TypeError")
    ELSE IF "status" \notin DOMAIN state THEN Raise("KeyError")
    ELSE IF state["status"] # "ready" THEN HTTP400
    ELSE Merge(state, "status" :> "active")

pickup_order(state, event) ==
    LET data == json_loads(event.data) IN
    IF state = None THEN Raise("TypeError")
    ELSE IF "budget" \notin DOMAIN state THEN Raise("KeyError")
    ELSE IF "budget" \notin DOMAIN data \/ "quantity" \notin DOMAIN data
    THEN Raise("KeyError")
    ELSE LET new_budget == state["budget"] - data["budget"] * data["quantity"] IN
         IF new_budget < 0 THEN HTTP400
         ELSE IF "purchase_price" \notin DOMAIN data THEN Raise("KeyError")
         ELSE Merge(state, ("budget" :> new_budget)
                           @@ ("purchase_price" :> data["purchase_price"])
                           @@ ("quantity" :> data["quantity"])
                           @@ ("status" :> "collected"))

deliver_products(state, event) ==
    LET data == json_loads(event.data) IN
    IF state = None THEN Raise("TypeError")
    ELSE IF "budget" \notin DOMAIN state THEN Raise("KeyError")
    ELSE IF "purchase_price" \notin DOMAIN data \/ "quantity" \notin DOMAIN data
    THEN Raise("KeyError")
    ELSE IF "quantity" \notin DOMAIN state THEN Raise("KeyError")
    ELSE LET new_budget == state["budget"]
                           + data["purchase_price"] * data["quantity"]
             new_quantity == state["quantity"] - data["quantity"] IN
         IF new_quantity < 0 THEN HTTP400
         ELSE IF "sell_price" \notin DOMAIN data THEN Raise("KeyError")
         ELSE Merge(state, ("budget" :> new_budget)
                           @@ ("sell_price" :> data["sell_price"])
                           @@ ("quantity" :> new_quantity)
                           @@ ("status" :> "delivered"))

\* an increase that a delivered aggregate refuses
increase_budget_unless_delivered(state, event) ==
    LET data == json_loads(event.data) IN
    IF state = None THEN Raise("TypeError")
    ELSE IF "budget" \notin DOMAIN state THEN Raise("KeyError")
    ELSE IF "budget" \notin DOMAIN data THEN Raise("KeyError")
    ELSE IF "status" \in DOMAIN state /\ state["status"] = "delivered" THEN HTTP400
    ELSE Merge(state, "budget" :> (state["budget"] + data["budget"]))

increase_budget(state, event) ==
    LET data == json_loads(event.data) IN
    IF state = None THEN Raise("TypeError")
    ELSE IF "budget" \notin DOMAIN state THEN Raise("KeyError")
    ELSE IF "budget" \notin DOMAIN data THEN Raise("KeyError")
    ELSE Merge(state, "budget" :> (state["budget"] + data["budget"]))

\* subscriptions[event.type](state, event)
subscriptions(type, state, event) ==
    CASE type = "CREATE_DELIVERY"  -> create_delivery(state, event)
      [] type = "START_DELIVERY"   -> start_delivery(state, event)
      [] type = "PICKUP_ORDER"     -> pickup_order(state, event)
      [] type = "DELIVER_PRODUCTS" -> deliver_products(state, event)
      [] type = "INCREASE_BUDGET"  -> increase_budget(state, event)
      [] OTHER                     -> Raise("KeyError")

-----------------------------------------------------------------------------
(* main.py: the models and the replay *)

Event(pk, delivery_id, type, data, created_at) ==
    [pk |-> pk, delivery_id |-> delivery_id, type |-> type, data |-> data,
     created_at |-> created_at]

Delivery(budget, notes) == [budget |-> budget, notes |-> notes]

\* the events as listed, not sorted
Unsorted(s) == s

\* sorted(events, key=lambda x: x.created_at): a stable insertion sort
RECURSIVE InsertSorted(_, _)
InsertSorted(e, s) ==
    IF s = <<>> THEN <<e>>
    ELSE IF e.created_at < Head(s).created_at THEN <<e>> \o s
    ELSE <<Head(s)>> \o InsertSorted(e, Tail(s))

RECURSIVE sorted(_)
sorted(s) ==
    IF s = <<>> THEN <<>>
    ELSE InsertSorted(s[Len(s)], sorted(SubSeq(s, 1, Len(s) - 1)))

\* a replay that goes on after a reducer failed, keeping the state it had
RECURSIVE ReplaySkipping(_, _)
ReplaySkipping(state, evs) ==
    IF evs = <<>> THEN state
    ELSE LET next == subscriptions(Head(evs).type, state, Head(evs)) IN
         IF IsErr(next) THEN ReplaySkipping(state, Tail(evs))
         ELSE ReplaySkipping(next, Tail(evs))

\* the loop of build_state: thread the state through the reducers, an
\* exception of a reducer ending the loop
RECURSIVE Replay(_, _)
Replay(state, evs) ==
    IF evs = <<>> THEN state
    ELSE LET next == subscriptions(Head(evs).type, state, Head(evs)) IN
         IF IsErr(next) THEN next ELSE Replay(next, Tail(evs))

\* Event.all_pks() and Event.get: every saved event, whatever its delivery
build_state(pk) ==
    IF events # <<>> /\ ~hasCreatedAt THEN Raise("AttributeError")
    ELSE Replay(EmptyDict, sorted(events))

\* get_delivery_status after its redis.get returned `state`: the handler's
\* return value and the cache it leaves
status_after_get(state, pk) ==
    IF state = None
    THEN [ret |-> json_loads(state), cache |-> cache]
    ELSE LET built == build_state(pk) IN
         IF IsErr(built) THEN [ret |-> built, cache |-> cache]
         ELSE [ret |-> built,
               cache |-> [cache EXCEPT ![pk] = json_dumps(built)]]

get_delivery_status(pk) == status_after_get(cache[pk], pk)

\* await v: only an awaitable can be awaited; get_delivery_status is a plain
\* function and returns a dict
Await(v) == IF IsErr(v) THEN v ELSE Raise("TypeError")

-----------------------------------------------------------------------------
(* Requests *)

PKs == 1..MaxEvents

Amounts == 0..MaxAmount

Quantities == {-1, 1}

Body(type, data) == [type |-> type, data |-> data]

Types ==
    {"CREATE_DELIVERY", "DELIVER_PRODUCTS", "INCREASE_BUDGET", "PICKUP_ORDER",
     "START_DELIVERY", "UNKNOWN"}

\* the request body of the given type.  Its data carries the budget and the
\* notes that POST /delivery reads; the amount is the budget of a create, the
\* increase of an INCREASE_BUDGET and the unit price of a PICKUP_ORDER, and
\* the two order events carry a quantity and the two prices
Request(type, amount, quantity) ==
    Body(type,
         CASE type \in {"CREATE_DELIVERY", "INCREASE_BUDGET"} ->
                ("budget" :> amount) @@ ("notes" :> "x")
           [] type = "PICKUP_ORDER" ->
                ("budget" :> amount) @@ ("notes" :> "x") @@ ("quantity" :> quantity)
                @@ ("purchase_price" :> 1)
           [] type = "DELIVER_PRODUCTS" ->
                ("budget" :> 0) @@ ("notes" :> "x") @@ ("quantity" :> quantity)
                @@ ("purchase_price" :> 1) @@ ("sell_price" :> 2)
           [] OTHER ->
                ("budget" :> 0) @@ ("notes" :> "x"))

NoRequest == [op |-> "none"]

-----------------------------------------------------------------------------
(* The HTTP handlers *)

Init ==
    /\ hasCreatedAt \in BOOLEAN
    /\ ServicesIdle
    /\ deliveries = <<>>
    /\ events = <<>>
    /\ cache = [pk \in PKs |-> None]
    /\ last = NoRequest
    /\ rState = None
    /\ rEvent = None
    /\ rResult = None
    /\ rLen = 0
    /\ clients = <<>>

\* the response to a request, as the next one finds it
Served(op, pk, type, ret) == [op |-> op, pk |-> pk, type |-> type, ret |-> ret]

\* a save that keeps only the object saved
save_replacing(table, obj) == <<obj>>

\* HashModel.save of a new object: one more hash in the store
save(table, obj) == Append(table, obj)

\* POST /delivery with the given body; `stored` tells whether the redis.set
\* of line 77 reaches Redis or is lost with a ConnectionError
create_with(body, stored) ==
    /\ Len(events) < MaxEvents
    /\ IF "budget" \notin DOMAIN body.data \/ "notes" \notin DOMAIN body.data
       THEN /\ last' = Served("create", 0, body.type, Raise("KeyError"))
            /\ UNCHANGED <<deliveries, events, cache>>
       ELSE LET pk == Len(deliveries) + 1
                event == Event(Len(events) + 1, pk, body.type,
                               json_dumps(body.data), Len(events) + 1)
                state == subscriptions(event.type, None, event) IN
            /\ deliveries' = save(deliveries,
                                  Delivery(body.data["budget"], body.data["notes"]))
            /\ events' = save(events, event)
            /\ cache' = IF IsErr(state) \/ ~stored THEN cache
                        ELSE [cache EXCEPT ![pk] = json_dumps(state)]
            /\ last' = Served("create", pk, body.type,
                              IF IsErr(state) \/ stored THEN state
                              ELSE Raise("ConnectionError"))
    /\ UNCHANGED <<svcVars, hasCreatedAt, redVars>>

\* POST /delivery with the given body
create_body(body) == create_with(body, TRUE)

\* POST /delivery
create(type, amount, quantity, wellFormed) ==
    LET body == IF wellFormed THEN Request(type, amount, quantity)
                ELSE Body(type, EmptyDict) IN
    create_body(body) /\ UNCHANGED clients

\* GET /delivery/{pk}/status
status(pk) ==
    LET r == get_delivery_status(pk) IN
    /\ cache' = r.cache
    /\ last' = Served("status", pk, "", r.ret)
    /\ UNCHANGED <<svcVars, hasCreatedAt, deliveries, events, redVars, clients>>

\* body["data"] of a POST /event for delivery pk
WithId(body, pk) == Body(body.type, body.data @@ ("delivery_id" :> pk))

\* the event a dispatch of `body` builds
EventOfBody(body) ==
    Event(0, body.data["delivery_id"], body.type, json_dumps(body.data), 0)

\* POST /event with the given body
dispatch_body(body) ==
    IF "delivery_id" \notin DOMAIN body.data
    THEN /\ last' = Served("dispatch", 0, body.type, Raise("KeyError"))
         /\ UNCHANGED <<svcVars, hasCreatedAt, deliveries, events, cache, redVars>>
    ELSE LET delivery_id == body.data["delivery_id"]
             r == get_delivery_status(delivery_id)
             state == Await(r.ret)
             event == EventOfBody(body)
             new_state == IF IsErr(state) THEN state
                          ELSE subscriptions(event.type, state, event) IN
         /\ cache' = IF IsErr(new_state) THEN r.cache
                     ELSE [r.cache EXCEPT ![delivery_id] = json_dumps(new_state)]
         /\ last' = Served("dispatch", delivery_id, body.type, new_state)
         /\ UNCHANGED <<svcVars, hasCreatedAt, deliveries, events, redVars>>

\* POST /event
dispatch(type, amount, quantity, pk, wellFormed) ==
    LET body == IF wellFormed THEN WithId(Request(type, amount, quantity), pk)
                ELSE Body(type, EmptyDict) IN
    dispatch_body(body) /\ UNCHANGED clients

Next ==
    \/ \E type \in Types, amount \in Amounts, quantity \in Quantities :
          create(type, amount, quantity, TRUE)
    \/ \E type \in Types : create(type, 0, 1, FALSE)
    \/ \E pk \in PKs : status(pk)
    \/ \E type \in Types, amount \in Amounts, quantity \in Quantities, pk \in PKs :
          dispatch(type, amount, quantity, pk, TRUE)
    \/ \E type \in Types : dispatch(type, 0, 1, 1, FALSE)

Spec == Init /\ [][Next]_vars

\* POST /delivery whose cache update is lost after the event was saved
create_lost(type, amount, quantity) ==
    /\ create_with(Request(type, amount, quantity), FALSE)
    /\ last'.pk # 0
    /\ last'.ret = Raise("ConnectionError")
    /\ UNCHANGED clients

\* the handlers, with cache updates that may be lost
NextLost ==
    \/ \E type \in Types, amount \in Amounts, quantity \in Quantities :
          create(type, amount, quantity, TRUE)
    \/ \E type \in Types, amount \in Amounts, quantity \in Quantities :
          create_lost(type, amount, quantity)
    \/ \E pk \in PKs : status(pk)
    \/ \E type \in Types, amount \in Amounts, quantity \in Quantities, pk \in PKs :
          dispatch(type, amount, quantity, pk, TRUE)

SpecLost == Init /\ [][NextLost]_vars

-----------------------------------------------------------------------------
(* Reducer harness: the reducers of subscriber.py applied to the states    *)
(* the handlers hand them (None in create, {} at the start of a replay)    *)
(* and to the states they return, chained as build_state chains them.      *)

MaxChain == 4

\* the events of one delivery the harness feeds the reducers
ReducerEvents(delivery_id) ==
    LET ReducerBodies ==
        {Body("CREATE_DELIVERY", ("budget" :> b) @@ ("notes" :> "x")) : b \in {0, 40, 60}}
        \cup {Body("START_DELIVERY", EmptyDict)}
        \cup {Body("PICKUP_ORDER", ("budget" :> u) @@ ("purchase_price" :> 10)
                                   @@ ("quantity" :> q)) : u \in {1, 10}, q \in {-1, 5}}
        \cup {Body("PICKUP_ORDER", ("purchase_price" :> 10) @@ ("quantity" :> 5))}
        \cup {Body("DELIVER_PRODUCTS", ("purchase_price" :> 10) @@ ("sell_price" :> 12)
                                       @@ ("quantity" :> q)) : q \in {-1, 5, 6}}
        \cup {Body("INCREASE_BUDGET", "budget" :> 100)}
        \cup {Body("UNKNOWN", EmptyDict)}
    IN {Event(0, delivery_id, b.type, json_dumps(b.data), 0) : b \in ReducerBodies}

InitR ==
    /\ hasCreatedAt = TRUE
    /\ ServicesIdle
    /\ deliveries = <<>>
    /\ events = <<>>
    /\ cache = [pk \in PKs |-> None]
    /\ last = NoRequest
    /\ rState \in {None, EmptyDict}
    /\ rEvent \in ReducerEvents(1)
    /\ rResult = None
    /\ rLen = 0
    /\ clients = <<>>

\* state = subscriptions[event.type](state, event)
apply ==
    /\ rResult = None
    /\ rResult' = subscriptions(rEvent.type, rState, rEvent)
    /\ rLen' = rLen + 1
    /\ UNCHANGED <<svcVars, hasCreatedAt, deliveries, events, cache, last, rState, rEvent, clients>>

\* the next iteration of the replay loop: the returned state and the next event
feed ==
    /\ rResult # None
    /\ ~IsErr(rResult)
    /\ rLen < MaxChain
    /\ rState' = rResult
    /\ rEvent' \in ReducerEvents(rEvent.delivery_id)
    /\ rResult' = None
    /\ UNCHANGED <<svcVars, hasCreatedAt, deliveries, events, cache, last, rLen, clients>>

NextR == apply \/ feed

SpecR == InitR /\ [][NextR]_vars

-----------------------------------------------------------------------------
(* Concurrent requests on one delivery: two POST /event requests that each *)
(* increase the budget of delivery 1 by 100, and one GET status of it,     *)
(* served by different workers, so that their Redis operations interleave. *)
(* POST /delivery requests of other clients arrive in between.             *)

Dispatchers == {1, 2}

Readers == {3}

\* the body of the two POST /event requests
IncreaseBody(delivery_id) ==
    Body("INCREASE_BUDGET", ("budget" :> 100) @@ ("delivery_id" :> delivery_id))

\* a request that has not started: pc is its position, state the local
\* variable of get_delivery_status, ret its response
Fresh == [pc |-> "start", state |-> None, ret |-> None]

\* the store after POST /delivery {CREATE_DELIVERY, budget 0}
InitConc ==
    LET data == ("budget" :> 0) @@ ("notes" :> "x")
        event == Event(1, 1, "CREATE_DELIVERY", json_dumps(data), 1) IN
    /\ hasCreatedAt \in BOOLEAN
    /\ ServicesIdle
    /\ deliveries = <<Delivery(0, "x")>>
    /\ events = <<event>>
    /\ cache = [pk \in PKs |-> IF pk = 1
                                THEN json_dumps(create_delivery(None, event))
                                ELSE None]
    /\ last = NoRequest
    /\ rState = None
    /\ rEvent = None
    /\ rResult = None
    /\ rLen = 0
    /\ clients = [c \in Dispatchers \cup Readers |-> Fresh]

\* state = redis.get(f"delivery:{pk}"), and the return of json.loads(state)
\* when it is None
redis_get(c) ==
    /\ clients[c].pc = "start"
    /\ clients' = [clients EXCEPT ![c] =
                      IF cache[1] = None
                      THEN [pc |-> "done", state |-> None, ret |-> json_loads(cache[1])]
                      ELSE [pc |-> "hit", state |-> cache[1], ret |-> None]]
    /\ UNCHANGED <<svcVars, hasCreatedAt, deliveries, events, cache, last, redVars>>

\* state = build_state(pk)
build(c) ==
    /\ clients[c].pc = "hit"
    /\ LET built == build_state(1) IN
       clients' = [clients EXCEPT ![c] =
                      IF IsErr(built)
                      THEN [pc |-> "done", state |-> None, ret |-> built]
                      ELSE [pc |-> "built", state |-> built, ret |-> None]]
    /\ UNCHANGED <<svcVars, hasCreatedAt, deliveries, events, cache, last, redVars>>

\* redis.set(f"delivery:{pk}", json.dumps(state)); return state.  The GET
\* request answers with it, dispatch goes on with it
redis_set(c) ==
    /\ clients[c].pc = "built"
    /\ cache' = [cache EXCEPT ![1] = json_dumps(clients[c].state)]
    /\ clients' = [clients EXCEPT ![c] =
                      IF c \in Readers
                      THEN [pc |-> "done", state |-> None, ret |-> @.state]
                      ELSE [pc |-> "returned", state |-> @.state, ret |-> None]]
    /\ UNCHANGED <<svcVars, hasCreatedAt, deliveries, events, last, redVars>>

\* the rest of dispatch: the await of what get_delivery_status returned, the
\* reducer and the redis.set of its result
resume(c) ==
    /\ clients[c].pc = "returned"
    /\ LET state == Await(clients[c].state)
           new_state == IF IsErr(state) THEN state
                        ELSE subscriptions(IncreaseBody(1).type, state,
                                           EventOfBody(IncreaseBody(1))) IN
       /\ cache' = IF IsErr(new_state) THEN cache
                   ELSE [cache EXCEPT ![1] = json_dumps(new_state)]
       /\ clients' = [clients EXCEPT ![c] =
                         [pc |-> "done", state |-> None, ret |-> new_state]]
    /\ UNCHANGED <<svcVars, hasCreatedAt, deliveries, events, last, redVars>>

NextConc ==
    \/ \E c \in Dispatchers \cup Readers : redis_get(c)
    \/ \E c \in Dispatchers \cup Readers : build(c)
    \/ \E c \in Dispatchers \cup Readers : redis_set(c)
    \/ \E c \in Dispatchers : resume(c)
    \/ \E type \in Types, amount \in Amounts, quantity \in Quantities :
          create(type, amount, quantity, TRUE)

SpecConc == InitConc /\ [][NextConc]_vars

-----------------------------------------------------------------------------
(* A client that sends the four commands of a delivery in order: POST      *)
(* /delivery, then three POST /event on the delivery the first response    *)
(* names, while other clients' requests are served in between.             *)

\* the type of the client's step-th command
CommandType(step) ==
    CASE step = 1 -> "CREATE_DELIVERY"
      [] step = 2 -> "START_DELIVERY"
      [] step = 3 -> "PICKUP_ORDER"
      [] OTHER    -> "DELIVER_PRODUCTS"

\* the data of the client's step-th command.  An order carries its price in
\* every field a reducer reads a price from
CommandData(step) ==
    CASE step = 1 -> ("budget" :> 100) @@ ("notes" :> "x")
      [] step = 2 -> EmptyDict
      [] step = 3 -> ("budget" :> 10) @@ ("purchase_price" :> 10) @@ ("quantity" :> 5)
      [] OTHER    -> ("purchase_price" :> 12) @@ ("sell_price" :> 12) @@ ("quantity" :> 5)

\* the client after its response: pc counts the commands answered, pk is the
\* delivery it was given, rets are the responses
Answered(c, pk, ret) == [pc |-> c.pc + 1, pk |-> pk, rets |-> Append(c.rets, ret)]

InitSeq ==
    /\ hasCreatedAt \in BOOLEAN
    /\ ServicesIdle
    /\ deliveries = <<>>
    /\ events = <<>>
    /\ cache = [pk \in PKs |-> None]
    /\ last = NoRequest
    /\ rState = None
    /\ rEvent = None
    /\ rResult = None
    /\ rLen = 0
    /\ clients = <<[pc |-> 0, pk |-> 0, rets |-> <<>>]>>

\* the client's POST /delivery
seq_create ==
    /\ clients[1].pc = 0
    /\ create_body(Body(CommandType(1), CommandData(1)))
    /\ clients' = <<Answered(clients[1], last'.pk, last'.ret)>>

\* the client's next POST /event
seq_dispatch ==
    LET step == clients[1].pc + 1 IN
    /\ clients[1].pc \in 1..3
    /\ dispatch_body(WithId(Body(CommandType(step), CommandData(step)), clients[1].pk))
    /\ clients' = <<Answered(clients[1], clients[1].pk, last'.ret)>>

NextSeq ==
    \/ seq_create
    \/ seq_dispatch
    \/ \E type \in Types, amount \in Amounts, quantity \in Quantities :
          create(type, amount, quantity, TRUE)
    \/ \E pk \in PKs : status(pk)
    \/ \E type \in Types, amount \in Amounts, quantity \in Quantities, pk \in PKs :
          dispatch(type, amount, quantity, pk, TRUE)

SpecSeq == InitSeq /\ [][NextSeq]_vars

-----------------------------------------------------------------------------
(* Replay harness: build_state called on the stores of saved events it can *)
(* be handed.  `events` is the store in the order Event.all_pks() lists it, *)
(* which is the order of a Redis key scan, not the order of the saves: an   *)
(* event keeps the pk and the created_at of its save.                      *)

MaxCalls == 3

\* an event as create or a saving dispatch would store it, saved at time t
StoredEvent(t, delivery_id, type, amount) ==
    Event(t, delivery_id, type, json_dumps(Request(type, amount, 1).data), t)

\* the stores of at most MaxEvents events, in the order of their saves
Stores ==
    LET Choices == {StoredEvent(t, id, type, amount) :
                      t \in 1..MaxEvents, id \in PKs, type \in Types, amount \in Amounts}
        Ascending(s) == \A i, j \in DOMAIN s : i < j => s[i].created_at < s[j].created_at
    IN UNION {{s \in [1..n -> Choices] : Ascending(s)} : n \in 0..MaxEvents}

InitB ==
    /\ hasCreatedAt \in BOOLEAN
    /\ ServicesIdle
    /\ deliveries = <<>>
    /\ events \in Stores
    /\ cache = [pk \in PKs |-> None]
    /\ last = NoRequest
    /\ rState = None
    /\ rEvent = None
    /\ rResult = None
    /\ rLen = 0
    /\ clients = <<>>

\* a call of build_state(pk): last is the call and what it returned or
\* raised, rState the listing it read, rLen the number of calls so far
derive(pk) ==
    /\ rLen < MaxCalls
    /\ last' = Served("build_state", pk, "", build_state(pk))
    /\ rState' = events
    /\ rLen' = rLen + 1
    /\ UNCHANGED <<svcVars, hasCreatedAt, deliveries, events, cache, rEvent, rResult, clients>>

\* the next Event.all_pks() lists the same keys in another order: the i-th
\* and the next change places
rescan(i) ==
    /\ i < Len(events)
    /\ events' = [events EXCEPT ![i] = events[i + 1], ![i + 1] = events[i]]
    /\ UNCHANGED <<svcVars, hasCreatedAt, deliveries, cache, last, redVars, clients>>

NextB ==
    \/ \E pk \in PKs : derive(pk)
    \/ \E i \in 1..MaxEvents : rescan(i)

SpecB == InitB /\ [][NextB]_vars

-----------------------------------------------------------------------------
(* The rate limiter of the users service (src/users/common/rate_limiter.py) *)

\* settings.RATE_LIMIT_REQUESTS: requests allowed in a window
RATE_LIMIT_REQUESTS == 2

\* settings.RATE_LIMIT_WINDOW: the window, in clock units
RATE_LIMIT_WINDOW == 2

\* the last value of the clock
MaxTime == 3

\* requests a behaviour sends
MaxRequests == 4

\* request.client.host of the clients
Hosts == {"h1", "h2"}

\* request.url.path of the requests
Paths == {"/health", "/users"}

\* str(current): the sorted-set member of a request
str(x) == <<"str", x>>

\* RateLimiter.get_key
get_key(host) == <<"rate_limit:", host>>

Keys == {get_key(host) : host \in Hosts}

\* the sorted set stored under a key, none once the key has expired
zset_of(key) ==
    IF key \in DOMAIN expires /\ expires[key] <= clock THEN EmptyDict
    ELSE zsets[key]

\* ZREMRANGEBYSCORE key lo hi
zremrangebyscore(z, lo, hi) ==
    [m \in {x \in DOMAIN z : ~(lo <= z[x] /\ z[x] <= hi)} |-> z[m]]

\* ZADD key score member: a member already in the set only gets the new score
zadd(z, member, score) == (member :> score) @@ z

\* ZCOUNT key lo hi
zcount(z, lo, hi) == Cardinality({m \in DOMAIN z : lo <= z[m] /\ z[m] <= hi})

\* RateLimiter.is_rate_limited: the pipeline and the verdict
is_rate_limited(key) ==
    LET current == clock
        window_start == current - RATE_LIMIT_WINDOW
        trimmed == zremrangebyscore(zset_of(key), 0, window_start)
        added == zadd(trimmed, str(current), current)
        request_count == zcount(added, window_start, current) IN
    [is_limited |-> request_count > RATE_LIMIT_REQUESTS,
     remaining |-> RATE_LIMIT_REQUESTS - request_count,
     zset |-> added,
     expire |-> current + RATE_LIMIT_WINDOW]

\* the delivery service before its first request
DeliveryIdle ==
    /\ hasCreatedAt = FALSE
    /\ deliveries = <<>>
    /\ events = <<>>
    /\ cache = [pk \in PKs |-> None]
    /\ last = NoRequest
    /\ rState = None
    /\ rEvent = None
    /\ rResult = None
    /\ rLen = 0
    /\ clients = <<>>

InitL ==
    /\ DeliveryIdle
    /\ InventoryIdle
    /\ PaymentIdle
    /\ PublisherIdle
    /\ clock = 0
    /\ zsets = [key \in Keys |-> EmptyDict]
    /\ expires = [key \in Keys |-> 0]
    /\ audit = <<>>

\* what the middleware answered to a request
Response(host, path, code, remaining) ==
    [host |-> host, path |-> path, time |-> clock, code |-> code,
     remaining |-> remaining]

\* RateLimitMiddleware.__call__
call(host, path) ==
    /\ Len(audit) < MaxRequests
    /\ IF path \in {"/health", "/metrics"}
       THEN /\ audit' = Append(audit, Response(host, path, 200, 0))
            /\ UNCHANGED <<zsets, expires>>
       ELSE LET key == get_key(host)
                r == is_rate_limited(key) IN
            /\ zsets' = [zsets EXCEPT ![key] = r.zset]
            /\ expires' = [expires EXCEPT ![key] = r.expire]
            /\ audit' = Append(audit,
                   IF r.is_limited THEN Response(host, path, 429, 0)
                   ELSE Response(host, path, 200, r.remaining))
    /\ UNCHANGED <<deliveryVars, inventoryVars, paymentVars, publisherVars, clock>>

\* time passes between two requests
tick ==
    /\ clock < MaxTime
    /\ clock' = clock + 1
    /\ UNCHANGED <<deliveryVars, inventoryVars, paymentVars, publisherVars, zsets, expires, audit>>

NextL ==
    \/ \E host \in Hosts, path \in Paths : call(host, path)
    \/ tick

SpecL == InitL /\ [][NextL]_vars

-----------------------------------------------------------------------------
(* The inventory consumer (src/inventory/subscriber.py) *)

\* messages a behaviour puts on the stream
MaxOrders == 3

\* the largest quantity of an order
MaxQuantity == 3

\* the stock of the saved product
Stock == 2

\* a Python int
int(x) == <<"int", x>>

\* the product ids orders name: "p1" is a saved Product, "p0" is not
ProductIds == {"p0", "p1"}

\* the fields of a stream entry as XREADGROUP returns them: Redis keeps every
\* field value as a string
Fields(pk, product_id, quantity) ==
    [pk |-> pk, product_id |-> product_id, quantity |-> str(quantity)]

\* Product.get(pk): NotFoundError when no such hash is saved
Product_get(pk) ==
    IF pk \in DOMAIN products THEN products[pk] ELSE Raise("NotFoundError")

\* a >= b in Python: defined within one type, on strings character by
\* character (the quantities are single digits)
py_ge(a, b) ==
    IF a[1] # b[1] THEN "TypeError"
    ELSE IF a[2] >= b[2] THEN "True" ELSE "False"

\* a - b in Python is defined on numbers only: TypeError otherwise
Numbers(a, b) == a[1] = "int" /\ b[1] = "int"

\* a - b in Python, for numbers
py_sub(a, b) == int(a[2] - b[2])

\* redis.xreadgroup(group, key, {key: ">"}, None): every entry the group has
\* not been given yet, as one list under the stream's name
xreadgroup ==
    LET new == [i \in 1..(Len(order_completed) - delivered) |->
                   <<delivered + i, order_completed[delivered + i]>>] IN
    IF new = <<>> THEN <<>> ELSE << <<"order_completed", new>> >>

\* the body of the for loop for one result, on the stores it is given
consume(result, store) ==
    LET obj == result[2][1][2]
        product == Product_get(obj.product_id) IN
    IF IsErr(product) THEN store
    ELSE LET enough == py_ge(product.quantity, obj.quantity) IN
         IF enough = "TypeError" THEN store
         ELSE IF enough = "True"
         THEN IF ~Numbers(product.quantity, obj.quantity) THEN store
              ELSE [store EXCEPT !.products[obj.product_id].quantity =
                                     py_sub(product.quantity, obj.quantity)]
         ELSE [store EXCEPT !.refund_order = Append(@, obj)]

InitI ==
    /\ DeliveryIdle
    /\ LimiterIdle
    /\ PaymentIdle
    /\ PublisherIdle
    /\ \E declared \in {"int", "str"} :
          products = [pk \in {"p1"} |->
                         [quantity |-> <<declared, Stock>>]]
    /\ order_completed = <<>>
    /\ delivered = 0
    /\ refund_order = <<>>

\* the payment service publishes a completed order
xadd(product_id, quantity) ==
    /\ Len(order_completed) < MaxOrders
    /\ order_completed' = Append(order_completed,
           Fields(Len(order_completed) + 1, product_id, quantity))
    /\ UNCHANGED <<deliveryVars, limiterVars, paymentVars, publisherVars,
                   products, delivered, refund_order>>

\* one turn of the consumer loop that finds new entries
poll ==
    LET results == xreadgroup
        store == [products |-> products, refund_order |-> refund_order] IN
    /\ results # <<>>
    /\ delivered' = Len(order_completed)
    /\ LET after == consume(results[1], store) IN
       /\ products' = after.products
       /\ refund_order' = after.refund_order
    /\ UNCHANGED <<deliveryVars, limiterVars, paymentVars, publisherVars,
                   order_completed>>

NextI ==
    \/ \E product_id \in ProductIds, quantity \in 1..MaxQuantity :
          xadd(product_id, quantity)
    \/ poll

SpecI == InitI /\ [][NextI]_vars

-----------------------------------------------------------------------------
(* The payment service (src/payment/main.py) *)

\* the price the inventory service reports for the saved product
Price == 10

\* requests.get(.../products/{product_id}).json(): the product, or the error
\* body of the inventory service, which has no price
product_json(product_id) ==
    IF product_id = "p1" THEN "price" :> Price ELSE "detail" :> "Not Found"

\* Order(...): a new order, with the primary key it is given
Order(pk, product_id, price, quantity) ==
    [pk |-> pk, product_id |-> product_id, price |-> price,
     fee |-> (2 * price) \div 10, total |-> (12 * price) \div 10,
     quantity |-> quantity, status |-> "pending"]

\* order.dict() as the stream keeps it: every number as a string
dict(order) ==
    [pk |-> order.pk, product_id |-> order.product_id, price |-> str(order.price),
     fee |-> str(order.fee), total |-> str(order.total),
     quantity |-> str(order.quantity), status |-> order.status]

\* an order_completed that forgets the new status
left_pending(order) == order

\* order.status = "completed"
completed(order) == [order EXCEPT !.status = "completed"]

InitP ==
    /\ DeliveryIdle
    /\ LimiterIdle
    /\ InventoryIdle
    /\ PublisherIdle
    /\ orders = <<>>
    /\ tasks = <<>>

\* POST /orders
create_order(product_id, quantity) ==
    LET product == product_json(product_id) IN
    /\ Len(orders) < MaxOrders
    /\ "price" \in DOMAIN product
    /\ LET order == Order(Len(orders) + 1, product_id, product["price"], quantity) IN
       /\ orders' = Append(orders, order)
       /\ tasks' = Append(tasks, [pc |-> "added", order |-> order])
    /\ UNCHANGED <<deliveryVars, limiterVars, inventoryVars, publisherVars>>

\* order_completed, lines 57 and 58: the status is saved
order_completed_save(pk) ==
    /\ pk \in 1..Len(tasks)
    /\ tasks[pk].pc = "added"
    /\ LET order == completed(tasks[pk].order) IN
       /\ orders' = [orders EXCEPT ![pk] = order]
       /\ tasks' = [tasks EXCEPT ![pk] = [pc |-> "saved", order |-> order]]
    /\ UNCHANGED <<deliveryVars, limiterVars, inventoryVars, publisherVars>>

\* order_completed, line 59: the order is published
order_completed_xadd(pk) ==
    /\ pk \in 1..Len(tasks)
    /\ tasks[pk].pc = "saved"
    /\ order_completed' = Append(order_completed, dict(tasks[pk].order))
    /\ tasks' = [tasks EXCEPT ![pk].pc = "done"]
    /\ UNCHANGED <<deliveryVars, limiterVars, publisherVars,
                   products, delivered, refund_order, orders>>

NextP ==
    \/ \E product_id \in ProductIds, quantity \in 1..MaxQuantity :
          create_order(product_id, quantity)
    \/ \E pk \in 1..MaxOrders : order_completed_save(pk)
    \/ \E pk \in 1..MaxOrders : order_completed_xadd(pk)

\* a background task that was added runs to its end
SpecP ==
    /\ InitP
    /\ [][NextP]_vars
    /\ \A pk \in 1..MaxOrders :
          WF_vars(order_completed_save(pk)) /\ WF_vars(order_completed_xadd(pk))

-----------------------------------------------------------------------------
(* The event publisher of the users service (src/users/common/events.py) *)

\* publish calls that reach the channel in a behaviour
MaxPublished == 2

\* an attribute of a class: its name, whether the name starts with "_", the
\* type of its value and the value (of a string attribute)
Attr(name, underscore, type, value) ==
    [name |-> name, underscore |-> underscore, type |-> type, value |-> value]

\* vars(UserEvents): the attributes of the class, in definition order
UserEvents ==
    <<Attr("__module__", TRUE, "str", "common.events"),
      Attr("REGISTERED", FALSE, "str", "user.registered"),
      Attr("DEACTIVATED", FALSE, "str", "user.deactivated"),
      Attr("LOGIN", FALSE, "str", "user.login"),
      Attr("LOGOUT", FALSE, "str", "user.logout"),
      Attr("_events_metadata", TRUE, "dict", ""),
      Attr("list_events", FALSE, "classmethod", ""),
      Attr("get_event_metadata", FALSE, "classmethod", ""),
      Attr("create_event", FALSE, "staticmethod", ""),
      Attr("register_user", FALSE, "staticmethod", "")>>

\* the comprehension of list_events, over the attributes from the i-th on
RECURSIVE events_from(_)
events_from(i) ==
    IF i > Len(UserEvents) THEN <<>>
    ELSE LET event == UserEvents[i].name
             rest == events_from(i + 1) IN
         IF ~UserEvents[i].underscore /\ UserEvents[i].type = "str"
         THEN <<event>> \o rest ELSE rest

\* UserEvents.list_events
list_events == events_from(1)

\* the strings callers pass as event_type
EventTypeArgs ==
    {"DEACTIVATED", "LOGIN", "LOGOUT", "REGISTERED",
     "user.deactivated", "user.deleted", "user.login", "user.logout",
     "user.registered"}

\* datetime.now().isoformat()
isoformat(t) == <<"iso", t>>

InitU ==
    /\ DeliveryIdle
    /\ InventoryIdle
    /\ PaymentIdle
    /\ clock = 0
    /\ zsets = <<>>
    /\ expires = <<>>
    /\ audit = <<>>
    /\ channel = <<>>
    /\ published = <<>>

\* EventPublisher.publish, with the synchronous client the service builds:
\* redis.publish returns the number of receivers, which cannot be awaited
publish(event_type) ==
    /\ Len(channel) < MaxPublished
    /\ IF \A i \in 1..Len(list_events) : list_events[i] # event_type
       THEN /\ published' = [type |-> event_type, ret |-> Raise("ValueError")]
            /\ UNCHANGED channel
       ELSE LET message == [type |-> event_type,
                            data |-> "user_id" :> 1,
                            timestamp |-> isoformat(clock)] IN
            /\ channel' = Append(channel, json_dumps(message))
            /\ published' = [type |-> event_type, ret |-> Raise("TypeError")]
    /\ UNCHANGED <<deliveryVars, inventoryVars, paymentVars,
                   clock, zsets, expires, audit>>

\* time passes between two calls
pass ==
    /\ clock < MaxTime
    /\ clock' = clock + 1
    /\ UNCHANGED <<deliveryVars, inventoryVars, paymentVars, publisherVars,
                   zsets, expires, audit>>

NextU ==
    \/ \E event_type \in EventTypeArgs : publish(event_type)
    \/ pass

SpecU == InitU /\ [][NextU]_vars

-----------------------------------------------------------------------------
(* Vocabulary of the properties *)

\* the event log of one aggregate, in append order
EventsOf(pk) == SelectSeq(events, LAMBDA e : e.delivery_id = pk)

\* the state derived from the aggregate's own log, replayed in order
LogState(pk) == Replay(EmptyDict, sorted(EventsOf(pk)))

\* the aggregate has events and they replay to a state
Exists(pk) == EventsOf(pk) # <<>> /\ ~IsErr(LogState(pk))

\* what the reducer of the command makes of the aggregate's derived state
Reduced(pk, body) == subscriptions(body.type, LogState(pk), EventOfBody(body))

Accepts(pk, body) == Exists(pk) /\ ~IsErr(Reduced(pk, body))

Rejects(pk, body) == Exists(pk) /\ IsErr(Reduced(pk, body))

\* the log after the event of `body` has been appended to it
Appended(body) ==
    /\ Len(events') = Len(events) + 1
    /\ SubSeq(events', 1, Len(events)) = events
    /\ events'[Len(events')].delivery_id = body.data["delivery_id"]
    /\ events'[Len(events')].type = body.type
    /\ events'[Len(events')].data = json_dumps(body.data)

\* the failures the interpreter raises, which no handler catches: they reach
\* the client as an internal server error
Unhandled == {"AttributeError", "KeyError", "TypeError"}

\* a failure the service signals itself
Signalled(ret) == IsErr(ret) /\ ret["error"] \notin Unhandled

\* the failure of the lookup subscriptions[event.type] of a type that has
\* no reducer
UnknownEventType == Raise("KeyError")

\* the k-th event of a replay is the first whose reducer fails
FailsAt(evs, k) ==
    LET before == Replay(EmptyDict, SubSeq(evs, 1, k - 1)) IN
    /\ ~IsErr(before)
    /\ IsErr(subscriptions(evs[k].type, before, evs[k]))

\* a reducer fails in the replay of evs
ReducerFails(evs) == \E k \in 1..Len(evs) : FailsAt(evs, k)

-----------------------------------------------------------------------------
(* Properties *)

C2_ValidateAppendCache ==
    [][\A type \in Types, amount \in Amounts, quantity \in Quantities, pk \in PKs :
          LET body == WithId(Request(type, amount, quantity), pk) IN
          (/\ dispatch(type, amount, quantity, pk, TRUE)
           /\ type # "CREATE_DELIVERY"
           /\ Exists(pk))
          => /\ Accepts(pk, body)
                => /\ Appended(body)
                   /\ last'.ret = Reduced(pk, body)
                   /\ cache'[pk] = json_dumps(Reduced(pk, body))
             /\ cache'[pk] # cache[pk] => Appended(body)]_vars

C4_ConcurrentIncreasesBothCommit ==
    (\A c \in Dispatchers : clients[c].pc = "done")
    => /\ \A c \in Dispatchers : ~IsErr(clients[c].ret)
       /\ ~IsErr(LogState(1))
       /\ LogState(1)["budget"] = 200

\* C11: the responses to CREATE_DELIVERY{budget 100}, START_DELIVERY,
\* PICKUP_ORDER{price 10, quantity 5}, DELIVER_PRODUCTS{price 12, quantity 5}
\* sent in order on one fresh delivery are states, and they are (ready, budget
\* 100), (active, budget 100), (collected, budget 50, quantity 5), (delivered,
\* budget 110, quantity 0).
C11_DeliveryScenario ==
    LET rets == clients[1].rets
        Is(k, st, b) ==
            /\ ~IsErr(rets[k])
            /\ rets[k]["status"] = st
            /\ rets[k]["budget"] = b IN
    /\ Len(rets) >= 1 => Is(1, "ready", 100)
    /\ Len(rets) >= 2 => Is(2, "active", 100)
    /\ Len(rets) >= 3 => Is(3, "collected", 50) /\ rets[3]["quantity"] = 5
    /\ Len(rets) >= 4 => Is(4, "delivered", 110) /\ rets[4]["quantity"] = 0

\* C12: the CREATE_DELIVERY reducer applied to a prior state that is present
\* (the aggregate already has a status) fails: it returns no state.
C12_CreateRequiresAbsentState ==
    (/\ rResult # None
     /\ rEvent.type = "CREATE_DELIVERY"
     /\ rState # None
     /\ "status" \in DOMAIN rState)
    => IsErr(rResult)

\* C13: a dispatch of a non-create command on a delivery that has no events
\* is answered with a failure the service signals (not found), and it changes
\* neither the log nor the cache.
C13_DispatchOnMissingAggregate ==
    [][\A type \in Types, amount \in Amounts, quantity \in Quantities, pk \in PKs :
          (/\ dispatch(type, amount, quantity, pk, TRUE)
           /\ type # "CREATE_DELIVERY"
           /\ EventsOf(pk) = <<>>)
          => /\ Signalled(last'.ret)
             /\ events' = events
             /\ cache' = cache]_vars

\* C14: a dispatch of a command whose type has no reducer, on an existing
\* aggregate, is answered with the failure of the reducer lookup, and it
\* changes neither the log nor the cache.
C14_UnknownTypeRejected ==
    [][\A amount \in Amounts, quantity \in Quantities, pk \in PKs :
          (dispatch("UNKNOWN", amount, quantity, pk, TRUE) /\ Exists(pk))
          => /\ last'.ret = UnknownEventType
             /\ events' = events
             /\ cache' = cache]_vars

C16_ReplayOrderByCreatedAt ==
    (last.op = "build_state" /\ Len(EventsOf(last.pk)) = 2)
    => last.ret = LogState(last.pk)

C18_EmptyLogNotFound ==
    (last.op = "build_state" /\ EventsOf(last.pk) = <<>>)
    => IsErr(last.ret)

\* C19: INCREASE_BUDGET on an existing aggregate, whatever its status,
\* returns the prior state with the amount added to its budget: the same
\* fields, and every field but the budget unchanged.
C19_IncreaseBudgetFrame ==
    (/\ rResult # None
     /\ rEvent.type = "INCREASE_BUDGET"
     /\ rState # None
     /\ {"status", "budget"} \subseteq DOMAIN rState)
    => /\ ~IsErr(rResult)
       /\ DOMAIN rResult = DOMAIN rState
       /\ rResult["budget"] = rState["budget"] + json_loads(rEvent.data)["budget"]
       /\ \A k \in DOMAIN rState \ {"budget"} : rResult[k] = rState[k]

\* C19 (witness): a delivered aggregate had its budget increased.
C19_Witness ==
    /\ rResult # None
    /\ rEvent.type = "INCREASE_BUDGET"
    /\ rState # None
    /\ "status" \in DOMAIN rState
    /\ rState["status"] = "delivered"
    /\ ~IsErr(rResult)
    /\ rResult["budget"] = rState["budget"] + 100

\* C20: START_DELIVERY, PICKUP_ORDER, DELIVER_PRODUCTS and INCREASE_BUDGET
\* applied to an absent prior state (None, or the empty state a replay
\* starts from) fail with the domain rule violation.
C20_AbsentStateRejected ==
    (/\ rResult # None
     /\ rEvent.type \in {"START_DELIVERY", "PICKUP_ORDER", "DELIVER_PRODUCTS",
                          "INCREASE_BUDGET"}
     /\ rState \in {None, EmptyDict})
    => rResult = HTTP400

\* the sequence s is an initial part of the sequence t
IsPrefix(s, t) == Len(s) <= Len(t) /\ \A i \in 1..Len(s) : t[i] = s[i]

\* C21: the event log is append-only.  No create, dispatch or status read
\* changes or removes a saved event: the store after a step begins with the
\* store before it, and so does the log of every aggregate.
C21_AppendOnly ==
    [][/\ IsPrefix(events, events')
       /\ \A pk \in PKs : IsPrefix(EventsOf(pk), EventsOf(pk)')]_vars

\* C21 (witness): two events are in the store and a later status read or
\* dispatch has been served.
C21_Witness ==
    /\ Len(events) = MaxEvents
    /\ last.op \in {"dispatch", "status"}
    /\ last.pk = 1
    /\ EventsOf(1) # <<>>

\* C22: when the cache update after a saved event was lost (the delivery has
\* a valid log and no cached state), the next status read of that delivery
\* returns the state replayed from its log.
C22_LostCacheUpdateRederived ==
    [][\A pk \in PKs :
          (/\ cache[pk] = None
           /\ Exists(pk)
           /\ last' = Served("status", pk, "", last'.ret)
           /\ events' = events)
          => last'.ret = LogState(pk)]_vars

\* the rate-limited requests of the host of request i, up to and including
\* it, that fall in its trailing window
Trailing(i) ==
    {j \in 1..i : /\ audit[j].host = audit[i].host
                  /\ audit[j].path \notin {"/health", "/metrics"}
                  /\ audit[j].time > audit[i].time - RATE_LIMIT_WINDOW}

\* the requests of a host admitted in the window that starts at t
AdmittedIn(host, t) ==
    {j \in 1..Len(audit) : /\ audit[j].host = host
                           /\ audit[j].path \notin {"/health", "/metrics"}
                           /\ audit[j].code = 200
                           /\ t <= audit[j].time
                           /\ audit[j].time < t + RATE_LIMIT_WINDOW}

\* C23: a rate-limited request is answered 429 exactly when the requests of
\* its client in the trailing window, itself included, exceed the limit, so
\* no window admits more than the limit of one client, also when requests
\* carry the same timestamp.
C23_SlidingWindowLimit ==
    /\ \A i \in 1..Len(audit) :
          audit[i].path \notin {"/health", "/metrics"}
          => (audit[i].code = 429
              <=> Cardinality(Trailing(i)) > RATE_LIMIT_REQUESTS)
    /\ \A host \in Hosts, t \in 0..MaxTime :
          Cardinality(AdmittedIn(host, t)) <= RATE_LIMIT_REQUESTS

\* the entries of the stream given to the group that name product_id and
\* were not sent to refund_order
Kept(product_id) ==
    {i \in 1..delivered :
        /\ order_completed[i].product_id = product_id
        /\ \A k \in 1..Len(refund_order) : refund_order[k] # order_completed[i]}

\* the quantities ordered by a set of stream entries, added up
RECURSIVE Ordered(_)
Ordered(entries) ==
    IF entries = {} THEN 0
    ELSE LET i == CHOOSE x \in entries : TRUE IN
         order_completed[i].quantity[2] + Ordered(entries \ {i})

\* C24: every order_completed entry given to the inventory group is settled
\* in exactly one way: either the stock of its product was reduced by its
\* quantity (the stock never going below zero), or it was published once
\* to refund_order.
C24_EveryOrderSettled ==
    /\ \A pk \in DOMAIN products :
          /\ products[pk].quantity[2] >= 0
          /\ Stock - products[pk].quantity[2] = Ordered(Kept(pk))
    /\ \A pk \in ProductIds \ DOMAIN products : Kept(pk) = {}
    /\ \A k \in 1..Len(refund_order) :
          /\ \E i \in 1..delivered : order_completed[i] = refund_order[k]
          /\ \A j \in 1..Len(refund_order) : refund_order[j] = refund_order[k] => j = k

\* the entries of the stream order_completed that carry order pk
Messages(pk) == {i \in 1..Len(order_completed) : order_completed[i].pk = pk}

\* C25: an order is saved with status pending when POST /orders creates it;
\* it is published at most once and only after its status was saved as
\* completed; and every order created is eventually completed and published
\* exactly once.
C25_OrderCompletedOnce ==
    /\ [][Len(orders') > Len(orders)
            => orders'[Len(orders')].status = "pending"]_vars
    /\ [](\A pk \in 1..Len(orders) :
            /\ orders[pk].status \in {"completed", "pending"}
            /\ Cardinality(Messages(pk)) <= 1
            /\ \A i \in Messages(pk) :
                  /\ orders[pk].status = "completed"
                  /\ order_completed[i] = dict(orders[pk]))
    /\ \A pk \in 1..MaxOrders :
          (Len(orders) >= pk)
             ~> (/\ Len(orders) >= pk
                 /\ orders[pk].status = "completed"
                 /\ Cardinality(Messages(pk)) = 1)

\* C25 (witness): the first order is completed and published once while a
\* later order is still pending.
C25_Witness ==
    /\ Len(orders) >= 2
    /\ orders[1].status = "completed"
    /\ Cardinality(Messages(1)) = 1
    /\ orders[2].status = "pending"

\* the event types of UserEvents: REGISTERED, DEACTIVATED, LOGIN, LOGOUT
EventTypes == {"user.deactivated", "user.login", "user.logout", "user.registered"}

\* C26: publish puts exactly one message of the given type on the channel
\* for each of the four event types of UserEvents, and for any other type
\* raises ValueError and publishes nothing; list_events, which it consults,
\* returns the event types.
C26_PublishAcceptsEventTypes ==
    [][(published' # published \/ channel' # channel)
       => /\ {list_events[i] : i \in 1..Len(list_events)} = EventTypes
          /\ IF published'.type \in EventTypes
             THEN /\ Len(channel') = Len(channel) + 1
                  /\ SubSeq(channel', 1, Len(channel)) = channel
                  /\ json_loads(channel'[Len(channel')]).type = published'.type
             ELSE /\ published'.ret = Raise("ValueError")
                  /\ channel' = channel]_vars

\* C5: round trip.  After a dispatch of an event the reducer accepts, the
\* state derived from the log is the reducer's result on the prior state, and
\* it is the state dispatch answered with.
C5_RoundTrip ==
    [][\A type \in Types, amount \in Amounts, quantity \in Quantities, pk \in PKs :
          LET body == WithId(Request(type, amount, quantity), pk) IN
          (dispatch(type, amount, quantity, pk, TRUE) /\ Accepts(pk, body))
          => /\ LogState(pk)' = Reduced(pk, body)
             /\ last'.ret = Reduced(pk, body)]_vars

C7_ReadIndependentOfCache ==
    \A pk \in PKs :
        Exists(pk)
        => /\ status_after_get(None, pk).ret = LogState(pk)
           /\ status_after_get(None, pk).cache[pk] = json_dumps(LogState(pk))
           /\ cache[pk] # None
              => status_after_get(cache[pk], pk).ret = LogState(pk)

\* C8: a dispatch of START_DELIVERY on an aggregate whose status is ready
\* answers with the prior state, its status active; on any other status it
\* answers with the domain rule violation and the log keeps its length.
C8_StartDeliveryGuard ==
    [][\A amount \in Amounts, quantity \in Quantities, pk \in PKs :
          (dispatch("START_DELIVERY", amount, quantity, pk, TRUE) /\ Exists(pk))
          => IF LogState(pk)["status"] = "ready"
             THEN last'.ret = Merge(LogState(pk), "status" :> "active")
             ELSE last'.ret = HTTP400 /\ Len(events') = Len(events)]_vars

\* C9: PICKUP_ORDER at price p and quantity q on budget b returns budget
\* b - p*q, quantity q and status collected when b - p*q >= 0, and fails
\* otherwise.
C9_PickupOrderBudget ==
    LET data == json_loads(rEvent.data) IN
    (/\ rResult # None
     /\ rEvent.type = "PICKUP_ORDER"
     /\ rState # None
     /\ "budget" \in DOMAIN rState
     /\ {"purchase_price", "quantity"} \subseteq DOMAIN data)
    => LET b == rState["budget"]
           p == data["purchase_price"]
           q == data["quantity"] IN
       IF b - p * q >= 0
       THEN /\ ~IsErr(rResult)
            /\ rResult["budget"] = b - p * q
            /\ rResult["quantity"] = q
            /\ rResult["status"] = "collected"
       ELSE IsErr(rResult)

\* C10: DELIVER_PRODUCTS at price p and sold quantity q on budget b and
\* quantity n returns budget b + p*q, quantity n - q and status delivered
\* when n - q >= 0, and fails otherwise; no state holds a negative quantity.
C10_DeliverProductsQuantity ==
    LET data == json_loads(rEvent.data) IN
    /\ (/\ rResult # None
        /\ rEvent.type = "DELIVER_PRODUCTS"
        /\ rState # None
        /\ {"budget", "quantity"} \subseteq DOMAIN rState
        /\ {"sell_price", "quantity"} \subseteq DOMAIN data)
       => LET b == rState["budget"]
              n == rState["quantity"]
              p == data["sell_price"]
              q == data["quantity"] IN
          IF n - q >= 0
          THEN /\ ~IsErr(rResult)
               /\ rResult["budget"] = b + p * q
               /\ rResult["quantity"] = n - q
               /\ rResult["status"] = "delivered"
          ELSE IsErr(rResult)
    /\ "quantity" \in DOMAIN rResult => rResult["quantity"] >= 0

====
